---- MODULE Spec2Model ----
(***************************************************************************)
(* The `src lsif upload` handler of cmd/src/lsif_upload.go: context        *)
(* resolution, request building, the gzipReader compression worker, the    *)
(* HTTP exchange and the interpretation of the response.                   *)
(*                                                                         *)
(* Strings whose content the code inspects (paths, remote URLs) are        *)
(* sequences of one-character strings; the other values are plain strings. *)
(***************************************************************************)
EXTENDS Naturals, Sequences, FiniteSets

Sep == "/"
Dot == "."

\* strings.HasPrefix
HasPrefix(s, p) == Len(s) >= Len(p) /\ SubSeq(s, 1, Len(p)) = p

\* strings.HasSuffix
HasSuffix(s, p) == Len(s) >= Len(p) /\ SubSeq(s, Len(s) - Len(p) + 1, Len(s)) = p

\* strings.TrimPrefix
TrimPrefix(s, p) == IF HasPrefix(s, p) THEN SubSeq(s, Len(p) + 1, Len(s)) ELSE s

\* strings.TrimSuffix
TrimSuffix(s, p) == IF HasSuffix(s, p) THEN SubSeq(s, 1, Len(s) - Len(p)) ELSE s

\* strings.Index of a single character, 1-based; 0 when absent
RECURSIVE IndexFrom(_, _, _)
IndexFrom(s, c, i) ==
    IF i > Len(s) THEN 0 ELSE IF s[i] = c THEN i ELSE IndexFrom(s, c, i + 1)

Index(s, c) == IndexFrom(s, c, 1)

\* strings.LastIndex of a single character, 1-based; 0 when absent
RECURSIVE LastIndexFrom(_, _, _)
LastIndexFrom(s, c, i) ==
    IF i < 1 THEN 0 ELSE IF s[i] = c THEN i ELSE LastIndexFrom(s, c, i - 1)

LastIndex(s, c) == LastIndexFrom(s, c, Len(s))

\* strings.Count of a single character
Count(s, c) == Cardinality({i \in 1..Len(s) : s[i] = c})

(***************************************************************************)
(* path/filepath (Unix): Clean, Dir, Rel, as the handler calls them.       *)
(***************************************************************************)

\* lazybuf backtracking of filepath.Clean: w is the 0-based write index
RECURSIVE Backtrack(_, _, _)
Backtrack(out, w, dotdot) ==
    IF w > dotdot /\ out[w + 1] # Sep THEN Backtrack(out, w - 1, dotdot) ELSE w

\* end of the path element starting at r: the first index >= r that is past
\* the end or holds a separator
RECURSIVE ElemEnd(_, _)
ElemEnd(path, r) ==
    IF r <= Len(path) /\ path[r] # Sep THEN ElemEnd(path, r + 1) ELSE r

\* the main loop of filepath.Clean; r is the 1-based read index
RECURSIVE CleanLoop(_, _, _, _)
CleanLoop(path, r, out, dotdot) ==
    LET n == Len(path)
        rooted == path[1] = Sep
    IN  IF r > n THEN out
        ELSE IF path[r] = Sep THEN CleanLoop(path, r + 1, out, dotdot)
        ELSE IF path[r] = Dot /\ (r = n \/ path[r + 1] = Sep)
             THEN CleanLoop(path, r + 1, out, dotdot)
        ELSE IF path[r] = Dot /\ path[r + 1] = Dot /\ (r + 1 = n \/ path[r + 2] = Sep)
             THEN IF Len(out) > dotdot
                  THEN CleanLoop(path, r + 2,
                           SubSeq(out, 1, Backtrack(out, Len(out) - 1, dotdot)), dotdot)
                  ELSE IF ~rooted
                  THEN LET o2 == (IF Len(out) > 0 THEN Append(out, Sep) ELSE out)
                                    \o <<Dot, Dot>>
                       IN  CleanLoop(path, r + 2, o2, Len(o2))
                  ELSE CleanLoop(path, r + 2, out, dotdot)
        ELSE LET o1 == IF (rooted /\ Len(out) # 1) \/ (~rooted /\ Len(out) # 0)
                       THEN Append(out, Sep) ELSE out
                 e  == ElemEnd(path, r)
             IN  CleanLoop(path, e, o1 \o SubSeq(path, r, e - 1), dotdot)

\* filepath.Clean
Clean(path) ==
    IF path = <<>> THEN <<Dot>>
    ELSE LET rooted == path[1] = Sep
             res == CleanLoop(path, IF rooted THEN 2 ELSE 1,
                              IF rooted THEN <<Sep>> ELSE <<>>,
                              IF rooted THEN 1 ELSE 0)
         IN  IF res = <<>> THEN <<Dot>> ELSE res

\* filepath.Dir: everything up to the last separator, cleaned
Dir(path) == Clean(SubSeq(path, 1, LastIndex(path, Sep)))

\* 0-based index of the next separator of s at or after i, or Len(s)
RECURSIVE ScanSep(_, _)
ScanSep(s, i) == IF i < Len(s) /\ s[i + 1] # Sep THEN ScanSep(s, i + 1) ELSE i

\* filepath.Rel's loop positioning base[b0:bi] and targ[t0:ti] at the first
\* differing elements (0-based, half-open, as in the source)
RECURSIVE RelLoop(_, _, _, _, _, _)
RelLoop(base, targ, b0, bi, t0, ti) ==
    IF bi < Len(base) /\ ti < Len(targ)
    THEN LET bj == ScanSep(base, bi)
             tj == ScanSep(targ, ti)
         IN  IF SubSeq(targ, t0 + 1, tj) # SubSeq(base, b0 + 1, bj)
             THEN [b0 |-> b0, bi |-> bj, t0 |-> t0, ti |-> tj]
             ELSE LET bk == IF bj < Len(base) THEN bj + 1 ELSE bj
                      tk == IF tj < Len(targ) THEN tj + 1 ELSE tj
                  IN  RelLoop(base, targ, bk, bk, tk, tk)
    ELSE [b0 |-> b0, bi |-> bi, t0 |-> t0, ti |-> ti]

\* n copies of "/.."
RECURSIVE UpDirs(_)
UpDirs(n) == IF n = 0 THEN <<>> ELSE <<Sep, Dot, Dot>> \o UpDirs(n - 1)

\* filepath.Rel: [err |-> BOOLEAN, val |-> path]
Rel(basepath, targpath) ==
    LET base0 == Clean(basepath)
        targ  == Clean(targpath)
        base  == IF base0 = <<Dot>> THEN <<>> ELSE base0
        baseSlashed == Len(base) > 0 /\ base[1] = Sep
        targSlashed == Len(targ) > 0 /\ targ[1] = Sep
        p == RelLoop(base, targ, 0, 0, 0, 0)
        bl == Len(base)
        tl == Len(targ)
    IN  IF targ = base0 THEN [err |-> FALSE, val |-> <<Dot>>]
        ELSE IF baseSlashed # targSlashed THEN [err |-> TRUE, val |-> <<>>]
        ELSE IF SubSeq(base, p.b0 + 1, p.bi) = <<Dot, Dot>> THEN [err |-> TRUE, val |-> <<>>]
        ELSE IF p.b0 # bl
             THEN [err |-> FALSE,
                   val |-> <<Dot, Dot>>
                           \o UpDirs(Count(SubSeq(base, p.b0 + 1, bl), Sep))
                           \o (IF p.t0 # tl THEN <<Sep>> \o SubSeq(targ, p.t0 + 1, tl)
                               ELSE <<>>)]
             ELSE [err |-> FALSE, val |-> SubSeq(targ, p.t0 + 1, tl)]

(***************************************************************************)
(* net/url as parseRemoteURL calls it.  The remotes of the model are built *)
(* from letters, digits and the characters @ : / . so the fragment, query, *)
(* percent-escape and bracketed-host branches of url.Parse are not entered.*)
(***************************************************************************)
Letters == {"g", "i", "t", "h", "p", "s"}
Digits == {"2"}

\* getScheme: [err, scheme, rest]
RECURSIVE GetScheme(_, _)
GetScheme(raw, i) ==
    IF i > Len(raw) THEN [err |-> FALSE, scheme |-> <<>>, rest |-> raw]
    ELSE IF raw[i] \in Letters THEN GetScheme(raw, i + 1)
    ELSE IF raw[i] \in Digits \/ raw[i] = Dot
         THEN IF i = 1 THEN [err |-> FALSE, scheme |-> <<>>, rest |-> raw]
              ELSE GetScheme(raw, i + 1)
    ELSE IF raw[i] = ":"
         THEN IF i = 1 THEN [err |-> TRUE, scheme |-> <<>>, rest |-> <<>>]
              ELSE [err |-> FALSE, scheme |-> SubSeq(raw, 1, i - 1),
                    rest |-> SubSeq(raw, i + 1, Len(raw))]
    ELSE [err |-> FALSE, scheme |-> <<>>, rest |-> raw]

\* validOptionalPort: "" or ":" followed by digits only
ValidOptionalPort(port) ==
    port = <<>> \/ (port[1] = ":" /\ \A i \in 2..Len(port) : port[i] \in Digits)

\* parseAuthority/parseHost: userinfo up to the last @ is dropped, the port
\* after the last colon must be numeric
ParseAuthority(authority) ==
    LET host == SubSeq(authority, LastIndex(authority, "@") + 1, Len(authority))
        c == LastIndex(host, ":")
    IN  [err |-> c # 0 /\ ~ValidOptionalPort(SubSeq(host, c, Len(host))),
         host |-> host]

\* url.Parse: [err, scheme, opaque, host, path]
UrlParse(raw) ==
    LET g == GetScheme(raw, 1)
        rest == g.rest
        none == [err |-> TRUE, scheme |-> <<>>, opaque |-> <<>>, host |-> <<>>, path |-> <<>>]
    IN  IF g.err THEN none
        ELSE IF ~HasPrefix(rest, <<Sep>>) /\ g.scheme # <<>>
             THEN [err |-> FALSE, scheme |-> g.scheme, opaque |-> rest,
                   host |-> <<>>, path |-> <<>>]
        ELSE IF ~HasPrefix(rest, <<Sep>>)
                /\ LET slash == Index(rest, Sep)
                       segment == IF slash = 0 THEN rest ELSE SubSeq(rest, 1, slash - 1)
                   IN  Index(segment, ":") # 0
             THEN none
        ELSE IF HasPrefix(rest, <<Sep, Sep>>)
             THEN LET after == SubSeq(rest, 3, Len(rest))
                      i == Index(after, Sep)
                      authority == IF i = 0 THEN after ELSE SubSeq(after, 1, i - 1)
                      path == IF i = 0 THEN <<>> ELSE SubSeq(after, i, Len(after))
                      a == ParseAuthority(authority)
                  IN  IF a.err THEN none
                      ELSE [err |-> FALSE, scheme |-> g.scheme, opaque |-> <<>>,
                            host |-> a.host, path |-> path]
        ELSE [err |-> FALSE, scheme |-> g.scheme, opaque |-> <<>>,
              host |-> <<>>, path |-> rest]

\* (*URL).Hostname: the host without a valid port
Hostname(u) ==
    LET c == LastIndex(u.host, ":")
    IN  IF c # 0 /\ ValidOptionalPort(SubSeq(u.host, c, Len(u.host)))
        THEN SubSeq(u.host, 1, c - 1) ELSE u.host

GitAt == <<"g", "i", "t", "@">>
DotGit == <<".", "g", "i", "t">>

\* parseRemoteURL: [err |-> BOOLEAN, val |-> repository name]
parseRemoteURL(urlString) ==
    IF HasPrefix(urlString, GitAt)
    THEN IF Count(urlString, ":") + 1 # 2
         THEN [err |-> TRUE, val |-> <<>>]
         ELSE LET c == Index(urlString, ":")
                  part0 == SubSeq(urlString, 1, c - 1)
                  part1 == SubSeq(urlString, c + 1, Len(urlString))
              IN  [err |-> FALSE,
                   val |-> TrimPrefix(part0, GitAt) \o <<Sep>>
                           \o TrimPrefix(TrimSuffix(part1, DotGit), <<Sep>>)]
    ELSE LET u == UrlParse(urlString)
         IN  IF u.err THEN [err |-> TRUE, val |-> <<>>]
             ELSE [err |-> FALSE, val |-> Hostname(u) \o TrimSuffix(u.path, DotGit)]

(***************************************************************************)
(* net/url query strings: url.Values is a map from key to the list of      *)
(* values added; Encode emits key=QueryEscape(value) pairs sorted by key.  *)
(***************************************************************************)
QueryKeys == <<"commit", "github_token", "indexerName", "repository", "root">>

EmptyValues == [k \in {QueryKeys[i] : i \in 1..Len(QueryKeys)} |-> <<>>]

\* url.Values.Add
Add(qs, key, value) == [qs EXCEPT ![key] = Append(@, value)]

\* url.QueryEscape: letters, digits and "." are kept, the rest is %XX
RECURSIVE QueryEscape(_)
QueryEscape(v) ==
    IF v = <<>> THEN <<>>
    ELSE (CASE Head(v) = "/" -> <<"%", "2", "F">>
            [] Head(v) = ":" -> <<"%", "3", "A">>
            [] Head(v) = "@" -> <<"%", "4", "0">>
            [] OTHER -> <<Head(v)>>) \o QueryEscape(Tail(v))

\* the pairs of one key, in the order added
RECURSIVE EncodeKey(_, _)
EncodeKey(key, values) ==
    IF values = <<>> THEN <<>>
    ELSE <<[key |-> key, value |-> QueryEscape(Head(values))]>>
         \o EncodeKey(key, Tail(values))

\* url.Values.Encode: the RawQuery as a sequence of key=value pairs
RECURSIVE EncodeFrom(_, _)
EncodeFrom(qs, i) ==
    IF i > Len(QueryKeys) THEN <<>>
    ELSE EncodeKey(QueryKeys[i], qs[QueryKeys[i]]) \o EncodeFrom(qs, i + 1)

Encode(qs) == EncodeFrom(qs, 1)

(***************************************************************************)
(* Inputs of a run.                                                        *)
(***************************************************************************)
\* the longest dump file, in chunks read by the copy loop
MaxChunks == 3
\* chunks the compressor can hold back before it has to write them out
GzipBuf == 1

HP == <<"h", "/", "p">>
Token == <<"t">>
Hash == <<"h", "2">>

\* -repo: unset or a repository name
RepoFlags == {<<>>, HP}
\* trimmed output of `git remote get-url origin`
Remotes == { GitAt \o <<"h", ":", "p">> \o DotGit,
             <<"s", ":", Sep, Sep, "h", Sep, "p">> \o DotGit,
             GitAt \o <<"h">>,
             DotGit }
\* the longest repository path of the runs that try every remote
MaxRepoPathLen == 4
RepoPathChars == {"p", ":", Sep}
\* repository paths: a name at both ends, no doubled separator
RepoPaths ==
    { P \in UNION {[1..k -> RepoPathChars] : k \in 1..MaxRepoPathLen} :
        /\ P[1] = "p"
        /\ P[Len(P)] = "p"
        /\ \A i \in 1..(Len(P) - 1) : ~(P[i] = Sep /\ P[i + 1] = Sep) }
\* hosts, with a port, with a user, with both
RemoteHosts == { <<"h">>, <<"h", ":", "2">>, <<"g", "@", "h">>,
                 <<"g", "@", "h", ":", "2">> }
SSHRemote(H, P) == GitAt \o H \o <<":">> \o P \o DotGit
URLRemote(H, P) == <<"s", ":", Sep, Sep>> \o H \o <<Sep>> \o P \o DotGit
\* remotes of neither form: empty, a bare word, a local path, a relative path
OtherRemotes == { <<>>, <<"h">>, <<Sep, "h", Sep, "p">>, <<"h", Sep, "p">> }
\* every origin remote the runs that try every remote start from
AllRemotes ==
    Remotes \cup OtherRemotes
    \cup {SSHRemote(H, P) : H \in {<<"h">>, <<"h", ":", "2">>}, P \in RepoPaths}
    \cup {URLRemote(H, P) : H \in RemoteHosts, P \in RepoPaths}
\* -commit: unset or a hash
CommitFlags == {<<>>, Hash}
\* -root values given explicitly
RootFlags == { <<>>, <<Dot>>, <<Sep>>, <<"p">>, <<"p", Sep>>, <<Sep, "p">>,
               <<Dot, Dot>>, <<Dot, Dot, Sep, "p">>, <<"p", Sep, Dot, Dot>> }
\* the longest -root value of the runs that try every root
MaxRootLen == 4
PathChars == {Sep, Dot, "p"}
\* every path of at most n characters
PathStrings(n) == UNION {[1..k -> PathChars] : k \in 0..n}
\* trimmed output of `git rev-parse --show-toplevel`
TopLevels == { <<Sep, "h">> }
\* filepath.Abs of the -file value
AbsFiles == { <<Sep, "h", Sep, "t">>, <<Sep, "h", Sep, "p", Sep, "t">>, <<Sep, "t">> }
\* -github-token, -indexerName, cfg.AccessToken: unset or a value
OptionalValues == {<<>>, Token}

\* HTTP statuses the server answers with
Statuses == {200, 401, 500}
\* response bodies: whether the text holds "must provide github_token" (in
\* lower or mixed case) and what json.Unmarshal finds in it
Bodies == { [phrase |-> "none", json |-> "id"],
            [phrase |-> "none", json |-> "noid"],
            [phrase |-> "none", json |-> "invalid"],
            [phrase |-> "lower", json |-> "invalid"],
            [phrase |-> "mixed", json |-> "invalid"] }

NoBody == [phrase |-> "", json |-> ""]
\* error values: a name, and for fmt.Errorf("error: %s\n\n%s", resp.Status, body)
\* the status and the body
Err(name) == [name |-> name, status |-> 0, body |-> NoBody]
StatusErr(status, body) == [name |-> "status", status |-> status, body |-> body]
NoErr == Err("nil")

\* how a run ends: os.Exit(1) after a diagnostic, return err, return nil
NoOutcome == [kind |-> "none", err |-> NoErr]
Exit(diag) == [kind |-> "Exit", err |-> Err(diag)]
Failure(e) == [kind |-> "Failure", err |-> e]
Success == [kind |-> "Success", err |-> NoErr]

VARIABLES
    hpc,          \* the handler's position
    repoFlag, commitFlag, rootSet, rootFlag, githubTokenFlag, indexerNameFlag,
    openFlag, getCurl, accessToken,
    stdout,       \* what the handler has printed, as tags
    url,          \* the target URL once built
    curl,         \* the rendered cURL command once printed
    req,          \* the HTTP request once created
    requests,     \* calls of http.DefaultClient.Do
    body,         \* the response body once read
    tty,          \* isatty.IsTerminal(os.Stdout.Fd()) as line 233 found it
    originURL,    \* what `git remote get-url origin` prints, trimmed
    outcome,      \* how the handler ended
    fileState,    \* the dump file f: "unopened", "open", "closed"
    dump,         \* the chunks of the dump file
    filePos,      \* chunks the copy loop has read
    wpc,          \* the compression worker's position
    wroteHeader,  \* gzip.Writer: header written
    gwBuf,        \* gzip.Writer: compressed data not yet written out
    gwErr,        \* gzip.Writer: sticky write error
    wq,           \* pipe writes the current gzip call still has to make
    pipe,         \* io.Pipe: the write being offered to the reader
    copyErr,      \* the error br.WriteTo returned
    closeErr,     \* the error gw.Close returned
    gwClosed, pwClosed, prClosed,
    ch,           \* the completion channel: "open", "closed"
    chErr,        \* the value the handler received from ch
    tpc,          \* the transport's position
    received,     \* request body bytes the transport has read
    resp,         \* the status of the response, 0 before the server answered
    terr          \* the transport failed

hvars == <<hpc, repoFlag, commitFlag, rootSet, rootFlag, githubTokenFlag,
           indexerNameFlag, openFlag, getCurl, accessToken, stdout, url, curl,
           req, requests, body, tty, originURL, outcome, chErr>>
wvars == <<dump, filePos, wpc, wroteHeader, gwBuf, gwErr, wq, copyErr, closeErr,
           gwClosed, pwClosed, ch>>
tvars == <<tpc, received, resp, terr>>
vars == <<hvars, wvars, tvars, fileState, pipe, prClosed>>

\* nothing built yet
NoURL == [path |-> "", query |-> <<>>]
NoCurl == [method |-> "", headers |-> {}, url |-> NoURL, data |-> ""]
NoRequest == [method |-> "", headers |-> {}, url |-> NoURL]

\* the state after flagSet.Parse, the flags drawn from the given sets
InitWith(repos, remotes, commits, roots, optional, opens) ==
    /\ hpc = "repo"
    /\ repoFlag \in repos
    /\ originURL \in (IF repoFlag = <<>> THEN remotes ELSE {<<>>})
    /\ commitFlag \in commits
    /\ rootSet \in BOOLEAN
    /\ rootFlag \in (IF rootSet THEN roots ELSE {<<>>})
    /\ githubTokenFlag \in optional
    /\ indexerNameFlag \in optional
    /\ openFlag \in opens
    /\ getCurl \in BOOLEAN
    /\ accessToken \in optional
    /\ stdout = <<>>
    /\ url = NoURL
    /\ curl = NoCurl
    /\ req = NoRequest
    /\ requests = 0
    /\ body = NoBody
    /\ tty = FALSE
    /\ outcome = NoOutcome
    /\ fileState = "unopened"
    /\ dump = <<>>
    /\ filePos = 0
    /\ wpc = "idle"
    /\ wroteHeader = FALSE
    /\ gwBuf = <<>>
    /\ gwErr = FALSE
    /\ wq = <<>>
    /\ pipe = <<>>
    /\ copyErr = NoErr
    /\ closeErr = NoErr
    /\ gwClosed = FALSE
    /\ pwClosed = FALSE
    /\ prClosed = FALSE
    /\ ch = "open"
    /\ chErr = NoErr
    /\ tpc = "idle"
    /\ received = <<>>
    /\ resp = 0
    /\ terr = FALSE

Init == InitWith(RepoFlags, Remotes, CommitFlags, RootFlags, OptionalValues, BOOLEAN)

flags == <<rootSet, githubTokenFlag, indexerNameFlag, openFlag, getCurl, accessToken,
           originURL>>
upload == <<wvars, tvars, fileState, pipe, prClosed>>

(***************************************************************************)
(* Context resolution.                                                     *)
(***************************************************************************)

\* lines 75-90: -repo, or the origin remote through parseRemoteURL
ResolveRepo ==
    /\ hpc = "repo"
    /\ \/ /\ repoFlag # <<>>
          /\ repoFlag' = repoFlag
          /\ stdout' = Append(stdout, "Repository")
          /\ hpc' = "commit"
          /\ outcome' = outcome
       \/ /\ repoFlag = <<>>
          /\ repoFlag' = repoFlag
          /\ stdout' = Append(stdout, "Failed to invoke git")
          /\ hpc' = "done"
          /\ outcome' = Exit("git remote")
       \/ /\ repoFlag = <<>>
          /\ LET r == parseRemoteURL(originURL)
             IN  /\ repoFlag' = r.val
                 /\ IF r.err
                    THEN /\ stdout' = Append(stdout, "unrecognized remote URL")
                         /\ hpc' = "done"
                         /\ outcome' = Exit("parseRemoteURL")
                    ELSE /\ stdout' = Append(stdout, "Repository")
                         /\ hpc' = "commit"
                         /\ outcome' = outcome
    /\ UNCHANGED <<commitFlag, rootFlag, flags, url, curl, req, requests, body, tty, chErr, upload>>

\* lines 92-102: -commit, or `git rev-parse HEAD`
ResolveCommit ==
    /\ hpc = "commit"
    /\ \/ /\ commitFlag # <<>>
          /\ commitFlag' = commitFlag
          /\ stdout' = Append(stdout, "Commit")
          /\ hpc' = "file"
          /\ outcome' = outcome
       \/ /\ commitFlag = <<>>
          /\ commitFlag' = commitFlag
          /\ stdout' = Append(stdout, "Failed to invoke git")
          /\ hpc' = "done"
          /\ outcome' = Exit("git rev-parse")
       \/ /\ commitFlag = <<>>
          /\ commitFlag' = Hash
          /\ stdout' = Append(stdout, "Commit")
          /\ hpc' = "file"
          /\ outcome' = outcome
    /\ UNCHANGED <<repoFlag, rootFlag, flags, url, curl, req, requests, body, tty, chErr, upload>>

\* os.Stat of the dump file without the report of line 109
CheckFileSilent ==
    /\ hpc = "file"
    /\ \E isNotExist \in BOOLEAN :
          IF isNotExist
          THEN /\ stdout' = Append(stdout, "File does not exist")
               /\ hpc' = "done"
               /\ outcome' = Exit("file")
          ELSE /\ stdout' = stdout
               /\ hpc' = "root"
               /\ outcome' = outcome
    /\ UNCHANGED <<repoFlag, commitFlag, rootFlag, flags, url, curl, req, requests, body, tty,
                   chErr, upload>>

\* lines 104-109: os.Stat of the dump file
CheckFile ==
    /\ hpc = "file"
    /\ \E isNotExist \in BOOLEAN :
          IF isNotExist
          THEN /\ stdout' = Append(stdout, "File does not exist")
               /\ hpc' = "done"
               /\ outcome' = Exit("file")
          ELSE /\ stdout' = Append(stdout, "File")
               /\ hpc' = "root"
               /\ outcome' = outcome
    /\ UNCHANGED <<repoFlag, commitFlag, rootFlag, flags, url, curl, req, requests, body, tty,
                   chErr, upload>>

\* normalization without the check of lines 135-138
NormalizeRootNoReject(root) ==
    LET cleaned == Clean(root)
    IN  IF cleaned = <<Dot>> \/ cleaned = <<Sep>>
        THEN [rejected |-> FALSE, val |-> <<>>]
        ELSE [rejected |-> FALSE, val |-> cleaned]

\* normalization that collapses "." only
NormalizeRootDotOnly(root) ==
    LET cleaned == Clean(root)
    IN  IF HasPrefix(cleaned, <<Dot, Dot>>) THEN [rejected |-> TRUE, val |-> cleaned]
        ELSE IF cleaned = <<Dot>> THEN [rejected |-> FALSE, val |-> <<>>]
        ELSE [rejected |-> FALSE, val |-> cleaned]

\* lines 134-141: [rejected |-> the root is outside the repository, val |-> *rootFlag]
NormalizeRoot(root) ==
    LET cleaned == Clean(root)
    IN  IF HasPrefix(cleaned, <<Dot, Dot>>) THEN [rejected |-> TRUE, val |-> cleaned]
        ELSE IF cleaned = <<Dot>> \/ cleaned = <<Sep>>
             THEN [rejected |-> FALSE, val |-> <<>>]
        ELSE [rejected |-> FALSE, val |-> cleaned]

\* lines 134-142, given the root of lines 111-132
FinishRoot(root) ==
    LET n == NormalizeRoot(root)
    IN  /\ rootFlag' = n.val
        /\ IF n.rejected
           THEN /\ stdout' = Append(stdout, "-root is outside the repository")
                /\ hpc' = "done"
                /\ outcome' = Exit("root")
           ELSE /\ stdout' = Append(stdout, "Root")
                /\ hpc' = "url"
                /\ outcome' = outcome

\* lines 111-142: -root, or the dump file's directory relative to the top level
ResolveRoot ==
    /\ hpc = "root"
    /\ \/ /\ rootSet
          /\ FinishRoot(rootFlag)
       \/ /\ ~rootSet
          /\ rootFlag' = rootFlag
          /\ stdout' = Append(stdout, "Unable to detect root")
          /\ hpc' = "done"
          /\ outcome' = Exit("git toplevel")
       \/ /\ ~rootSet
          /\ \E topLevel \in TopLevels, absFile \in AbsFiles :
                LET rel == Rel(topLevel, absFile)
                IN  IF rel.err
                    THEN /\ rootFlag' = rootFlag
                         /\ stdout' = Append(stdout, "Unable to detect root")
                         /\ hpc' = "done"
                         /\ outcome' = Exit("rel")
                    ELSE FinishRoot(Dir(rel.val))
    /\ UNCHANGED <<repoFlag, commitFlag, flags, url, curl, req, requests, body, tty, chErr, upload>>

(***************************************************************************)
(* Request building.                                                       *)
(***************************************************************************)

\* lines 149-160: the url.Values of the upload
BuildQuery(repository, commit, githubToken, root, indexerName) ==
    LET q1 == Add(Add(EmptyValues, "repository", repository), "commit", commit)
        q2 == IF githubToken # <<>> THEN Add(q1, "github_token", githubToken) ELSE q1
        q3 == IF root # <<>> THEN Add(q2, "root", root) ELSE q2
    IN  IF indexerName # <<>> THEN Add(q3, "indexerName", indexerName) ELSE q3

\* lines 149-166: the target URL, unless cfg.Endpoint does not parse
BuildURL ==
    /\ hpc = "url"
    /\ \E endpointParses \in BOOLEAN :
          IF endpointParses
          THEN /\ url' = [path |-> "/.api/lsif/upload",
                          query |-> Encode(BuildQuery(repoFlag, commitFlag,
                                        githubTokenFlag, rootFlag, indexerNameFlag))]
               /\ hpc' = "curl"
               /\ outcome' = outcome
          ELSE /\ url' = url
               /\ hpc' = "done"
               /\ outcome' = Failure(Err("url.Parse"))
    /\ UNCHANGED <<repoFlag, commitFlag, rootFlag, flags, stdout, curl, req, requests, body, tty,
                   chErr, upload>>

\* the headers of lines 178-181 and of lines 204-207
Headers(token) ==
    {<<"Content-Type", <<"application/x-ndjson+lsif">>>>}
    \cup (IF token # <<>> THEN {<<"Authorization", <<"token ">> \o token>>} ELSE {})

\* a command line without the Authorization header
CurlHeadersNoAuth(token) ==
    {<<"Content-Type", <<"application/x-ndjson+lsif">>>>}

\* lines 178-181: the -H arguments of the command line, as name and value
CurlHeaders(token) ==
    {<<"Content-Type", <<"application/x-ndjson+lsif">>>>}
    \cup (IF token # <<>> THEN {<<"Authorization", <<"token ">> \o token>>} ELSE {})

\* lines 175-187: print the cURL command instead of uploading
RenderCurl ==
    /\ hpc = "curl"
    /\ getCurl
    /\ curl' = [method |-> "POST", headers |-> CurlHeaders(accessToken), url |-> url,
                data |-> "@-"]
    /\ stdout' = Append(stdout, "curl")
    /\ hpc' = "done"
    /\ outcome' = Success
    /\ UNCHANGED <<repoFlag, commitFlag, rootFlag, flags, url, req, requests, body, tty, chErr, upload>>

(***************************************************************************)
(* The upload: the handler, the gzipReader worker and the HTTP transport.  *)
(* What travels through the pipe is the gzip header, one item per          *)
(* compressed chunk, and the gzip trailer.                                 *)
(***************************************************************************)
Hdr == [kind |-> "header", n |-> 0]
Data(c) == [kind |-> "data", n |-> c]
Trl == [kind |-> "trailer", n |-> 0]

context == <<repoFlag, commitFlag, rootFlag, flags, url, curl>>

\* os.Open of the dump file without the return of line 186 before it
OpenFileAlways ==
    /\ hpc = "curl"
    /\ \E n \in 0..MaxChunks : dump' = [i \in 1..n |-> i]
    /\ fileState' = "open"
    /\ hpc' = "gzip"
    /\ outcome' = outcome
    /\ UNCHANGED <<context, stdout, req, requests, body, tty, chErr, tvars, pipe, prClosed,
                   filePos, wpc, wroteHeader, gwBuf, gwErr, wq, copyErr, closeErr,
                   gwClosed, pwClosed, ch>>

\* lines 189-193: os.Open of the dump file
OpenFile ==
    /\ hpc = "curl"
    /\ ~getCurl
    /\ \/ /\ hpc' = "done"
          /\ outcome' = Failure(Err("os.Open"))
          /\ UNCHANGED <<fileState, dump>>
       \/ /\ \E n \in 0..MaxChunks : dump' = [i \in 1..n |-> i]
          /\ fileState' = "open"
          /\ hpc' = "gzip"
          /\ outcome' = outcome
    /\ UNCHANGED <<context, stdout, req, requests, body, tty, chErr, tvars, pipe, prClosed,
                   filePos, wpc, wroteHeader, gwBuf, gwErr, wq, copyErr, closeErr,
                   gwClosed, pwClosed, ch>>

\* lines 196, 273-289: gzipReader starts the worker
SpawnWorker ==
    /\ hpc = "gzip"
    /\ wpc' = "copy"
    /\ hpc' = "request"
    /\ UNCHANGED <<context, stdout, req, requests, body, tty, outcome, chErr, tvars, fileState,
                   pipe, prClosed, dump, filePos, wroteHeader, gwBuf, gwErr, wq,
                   copyErr, closeErr, gwClosed, pwClosed, ch>>

\* lines 199-210: the POST request is created and handed to the client
SendRequest ==
    /\ hpc = "request"
    /\ req' = [method |-> "POST", headers |-> Headers(accessToken), url |-> url]
    /\ requests' = requests + 1
    /\ tpc' = "sending"
    /\ hpc' = "do"
    /\ UNCHANGED <<context, stdout, outcome, chErr, body, tty, wvars, received, resp, terr,
                   fileState, pipe, prClosed>>

\* gzip.Writer.Write of one chunk: the pipe writes it makes and what it keeps
GzipWrite(chunk, flush) ==
    LET buf == Append(gwBuf, Data(chunk))
        out == flush \/ Len(buf) > GzipBuf
    IN  [writes |-> (IF wroteHeader THEN <<>> ELSE <<Hdr>>) \o (IF out THEN buf ELSE <<>>),
         kept |-> IF out THEN <<>> ELSE buf]

\* a close that forgets what the compressor held back
GzipCloseLossy ==
    (IF wroteHeader THEN <<>> ELSE <<Hdr>>) \o <<Trl>>

\* gzip.Writer.Close without a sticky error: header if missing, what the
\* compressor held back, trailer
GzipClose ==
    (IF wroteHeader THEN <<>> ELSE <<Hdr>>) \o gwBuf \o <<Trl>>

\* line 284: one round of br.WriteTo(gw): read from the file, write to gw
WorkerCopy ==
    /\ wpc = "copy"
    /\ wq = <<>>
    /\ \/ /\ copyErr' = Err(IF fileState = "open" THEN "read" ELSE "file closed")
          /\ wpc' = "send"
          /\ UNCHANGED <<filePos, wroteHeader, gwBuf, wq>>
       \/ /\ fileState = "open"
          /\ filePos < Len(dump)
          /\ \E flush \in BOOLEAN :
                LET w == GzipWrite(dump[filePos + 1], flush)
                IN  /\ wq' = w.writes
                    /\ gwBuf' = w.kept
          /\ filePos' = filePos + 1
          /\ wroteHeader' = TRUE
          /\ UNCHANGED <<wpc, copyErr>>
       \/ /\ fileState = "open"
          /\ filePos = Len(dump)
          /\ wpc' = "gwclose"
          /\ UNCHANGED <<filePos, wroteHeader, gwBuf, wq, copyErr>>
    /\ UNCHANGED <<hvars, tvars, fileState, pipe, prClosed, dump, gwErr, closeErr,
                   gwClosed, pwClosed, ch>>

\* a pipe that takes a write while the one before it is unread
WorkerPipeWriteUnguarded ==
    /\ wpc \in {"copy", "gwclosing"}
    /\ wq # <<>>
    /\ ~prClosed
    /\ pipe' = Append(pipe, Head(wq))
    /\ UNCHANGED <<hvars, wvars, tvars, fileState, prClosed>>

\* io.PipeWriter.Write: the next pending write is offered to the reader
WorkerPipeWrite ==
    /\ wpc \in {"copy", "gwclosing"}
    /\ wq # <<>>
    /\ pipe = <<>>
    /\ ~prClosed
    /\ pipe' = <<Head(wq)>>
    /\ UNCHANGED <<hvars, wvars, tvars, fileState, prClosed>>

\* io.PipeWriter.Write on a pipe whose read side is closed: io.ErrClosedPipe.
\* br.WriteTo returns it (line 284); the deferred gw.Close() drops it (line 282)
WorkerWriteError ==
    /\ wpc \in {"copy", "gwclosing"}
    /\ wq # <<>>
    /\ prClosed
    /\ pipe' = <<>>
    /\ wq' = <<>>
    /\ gwErr' = TRUE
    /\ IF wpc = "copy"
       THEN /\ copyErr' = Err("closed pipe")
            /\ wpc' = "send"
            /\ UNCHANGED <<closeErr, gwClosed>>
       ELSE /\ closeErr' = Err("closed pipe")
            /\ gwClosed' = TRUE
            /\ wpc' = "pwclose"
            /\ UNCHANGED copyErr
    /\ UNCHANGED <<hvars, tvars, fileState, prClosed, dump, filePos, wroteHeader,
                   gwBuf, pwClosed, ch>>

\* line 282: the deferred gw.Close() starts
WorkerGzipClose ==
    /\ wpc = "gwclose"
    /\ IF gwErr
       THEN /\ closeErr' = Err("closed pipe")
            /\ gwClosed' = TRUE
            /\ wpc' = "pwclose"
            /\ UNCHANGED <<wq, gwBuf, wroteHeader>>
       ELSE /\ wq' = GzipClose
            /\ gwBuf' = <<>>
            /\ wroteHeader' = TRUE
            /\ wpc' = "gwclosing"
            /\ UNCHANGED <<closeErr, gwClosed>>
    /\ UNCHANGED <<hvars, tvars, fileState, pipe, prClosed, dump, filePos, gwErr,
                   copyErr, pwClosed, ch>>

\* line 282: gw.Close() returns after its last pipe write
WorkerGzipClosed ==
    /\ wpc = "gwclosing"
    /\ wq = <<>>
    /\ gwClosed' = TRUE
    /\ wpc' = "pwclose"
    /\ UNCHANGED <<hvars, tvars, fileState, pipe, prClosed, dump, filePos, wroteHeader,
                   gwBuf, gwErr, wq, copyErr, closeErr, pwClosed, ch>>

\* pw.Close() deferred last, so that it runs first
WorkerPipeCloseFirst ==
    /\ wpc \in {"gwclose", "pwclose"}
    /\ pwClosed' = TRUE
    /\ wpc' = IF wpc = "gwclose" THEN "gwclose2" ELSE "chclose"
    /\ UNCHANGED <<hvars, tvars, fileState, pipe, prClosed, dump, filePos, wroteHeader,
                   gwBuf, gwErr, wq, copyErr, closeErr, gwClosed, ch>>

\* line 281: the deferred pw.Close()
WorkerPipeClose ==
    /\ wpc = "pwclose"
    /\ pwClosed' = TRUE
    /\ wpc' = "chclose"
    /\ UNCHANGED <<hvars, tvars, fileState, pipe, prClosed, dump, filePos, wroteHeader,
                   gwBuf, gwErr, wq, copyErr, closeErr, gwClosed, ch>>

\* line 280: the deferred close(ch)
WorkerChanClose ==
    /\ wpc = "chclose"
    /\ ch' = "closed"
    /\ wpc' = "done"
    /\ UNCHANGED <<hvars, tvars, fileState, pipe, prClosed, dump, filePos, wroteHeader,
                   gwBuf, gwErr, wq, copyErr, closeErr, gwClosed, pwClosed>>

(***************************************************************************)
(* http.DefaultClient.Do: the transport reads the request body from the    *)
(* pipe and the server answers.                                            *)
(***************************************************************************)

\* io.PipeReader.Read: the transport takes the offered write
TransportRead ==
    /\ tpc = "sending"
    /\ pipe # <<>>
    /\ ~prClosed
    /\ received' = received \o pipe
    /\ pipe' = <<>>
    /\ wq' = Tail(wq)
    /\ UNCHANGED <<hvars, tpc, resp, terr, fileState, prClosed, dump, filePos, wpc,
                   wroteHeader, gwBuf, gwErr, copyErr, closeErr, gwClosed, pwClosed, ch>>

\* io.PipeReader.Read returns io.EOF once the write side is closed; the
\* transport closes the body it has sent
TransportEOF ==
    /\ tpc = "sending"
    /\ pwClosed
    /\ ~prClosed
    /\ prClosed' = TRUE
    /\ tpc' = IF resp = 0 THEN "awaiting" ELSE "done"
    /\ UNCHANGED <<hvars, wvars, received, resp, terr, fileState, pipe>>

\* the server answers after the whole body
ServerRespond ==
    /\ tpc = "awaiting"
    /\ \E status \in Statuses : resp' = status
    /\ tpc' = "done"
    /\ UNCHANGED <<hvars, wvars, received, terr, fileState, pipe, prClosed>>

\* the server answers before the body has ended
ServerRespondEarly ==
    /\ tpc = "sending"
    /\ resp = 0
    /\ \E status \in Statuses : resp' = status
    /\ UNCHANGED <<hvars, wvars, tpc, received, terr, fileState, pipe, prClosed>>

\* after an early answer the transport gives up the rest of the body and
\* closes it
TransportAbort ==
    /\ tpc = "sending"
    /\ resp # 0
    /\ prClosed' = TRUE
    /\ tpc' = "aborted"
    /\ UNCHANGED <<hvars, wvars, received, resp, terr, fileState, pipe>>

\* a transport-level error: Do will return it; the body is closed
TransportFail ==
    /\ tpc \in {"sending", "awaiting"}
    /\ resp = 0
    /\ terr' = TRUE
    /\ prClosed' = TRUE
    /\ tpc' = "failed"
    /\ UNCHANGED <<hvars, wvars, received, resp, fileState, pipe>>

(***************************************************************************)
(* The handler after the request was sent.                                 *)
(***************************************************************************)

\* Do returns, and a failed request is sent again
AfterDoRetry ==
    /\ hpc = "do"
    /\ terr \/ resp # 0
    /\ hpc' = IF terr THEN "request" ELSE "recv"
    /\ UNCHANGED <<context, stdout, req, requests, body, tty, outcome, chErr, wvars, tvars,
                   fileState, pipe, prClosed>>

\* lines 210-214: Do returns
AfterDo ==
    /\ hpc = "do"
    /\ terr \/ resp # 0
    /\ IF terr
       THEN /\ outcome' = Failure(Err("transport"))
            /\ hpc' = "done"
            /\ fileState' = "closed"
       ELSE /\ hpc' = "recv"
            /\ UNCHANGED <<outcome, fileState>>
    /\ UNCHANGED <<context, stdout, req, requests, body, tty, chErr, wvars, tvars, pipe, prClosed>>

\* the handler without the check of lines 217-219
ReaderErrorIgnored(e) == NoOutcome

\* lines 217-219: what the handler does with the value received from ch
ReaderError(e) == IF e # NoErr THEN Failure(e) ELSE NoOutcome

\* line 217 with line 285: the worker's send meets the handler's receive
RecvError ==
    /\ hpc = "recv"
    /\ wpc = "send"
    /\ ch = "open"
    /\ chErr' = copyErr
    /\ wpc' = "gwclose"
    /\ outcome' = ReaderError(copyErr)
    /\ IF ReaderError(copyErr) = NoOutcome
       THEN hpc' = "readall" /\ UNCHANGED fileState
       ELSE hpc' = "done" /\ fileState' = "closed"
    /\ UNCHANGED <<context, stdout, req, requests, body, tty, tvars, pipe, prClosed, dump,
                   filePos, wroteHeader, gwBuf, gwErr, wq, copyErr, closeErr, gwClosed,
                   pwClosed, ch>>

\* line 217: the receive from the closed channel yields nil
RecvClosed ==
    /\ hpc = "recv"
    /\ ch = "closed"
    /\ hpc' = "readall"
    /\ UNCHANGED <<context, stdout, req, requests, body, tty, outcome, chErr, wvars, tvars,
                   fileState, pipe, prClosed>>

\* a comparison that keeps the letter case
ToLowerKeep(b) == b

\* strings.ToLower(string(body)), line 230
ToLower(b) == [b EXCEPT !.phrase = IF @ = "mixed" THEN "lower" ELSE @]

\* strings.Contains(body, "must provide github_token")
ContainsPhrase(b) == b.phrase = "lower"

\* lines 229-247: [out |-> the outcome, or NoOutcome to go on; prints |-> tags]
Interpret(status, b, terminal) ==
    IF status < 200 \/ status >= 300
    THEN IF status = 401 /\ ContainsPhrase(ToLower(b))
         THEN [out |-> Failure(Err("you must provide -github-token")), prints |-> <<>>]
         ELSE [out |-> Failure(StatusErr(status, b)),
               prints |-> IF status = 401 /\ terminal THEN <<"hint">> ELSE <<>>]
    ELSE IF b.json = "invalid"
         THEN [out |-> Failure(Err("json")), prints |-> <<>>]
         ELSE [out |-> NoOutcome, prints |-> <<"uploaded">>]

\* line 249: the upload id the status page is named by, "" without an id
PayloadID(b) == IF b.json = "id" THEN "id" ELSE ""

\* lines 221-254: read the response body and classify the response
ReadResponse ==
    /\ hpc = "readall"
    /\ \/ /\ outcome' = Failure(Err("ReadAll"))
          /\ hpc' = "done"
          /\ fileState' = "closed"
          /\ UNCHANGED <<stdout, body, tty>>
       \/ /\ body' \in Bodies
          \* line 233 asks for the terminal only after a 401 without the phrase
          /\ tty' \in (IF resp = 401 /\ ~ContainsPhrase(ToLower(body'))
                       THEN BOOLEAN ELSE {FALSE})
          /\ LET i == Interpret(resp, body', tty')
             IN  /\ stdout' = stdout \o i.prints
                 /\ outcome' = i.out
                 /\ IF i.out = NoOutcome
                    THEN hpc' = "open" /\ UNCHANGED fileState
                    ELSE hpc' = "done" /\ fileState' = "closed"
    /\ UNCHANGED <<context, req, requests, chErr, wvars, tvars, pipe, prClosed>>

\* a browser launched whether or not -open was given
OpenBrowserAlways ==
    /\ hpc = "open"
    /\ stdout' = Append(stdout, "browser")
    /\ \E launched \in BOOLEAN :
          outcome' = IF launched THEN Success ELSE Failure(Err("browser"))
    /\ hpc' = "done"
    /\ fileState' = "closed"
    /\ UNCHANGED <<context, req, requests, body, tty, chErr, wvars, tvars, pipe, prClosed>>

\* lines 256-262: -open, then return nil
OpenBrowser ==
    /\ hpc = "open"
    /\ \/ /\ openFlag
          /\ stdout' = Append(stdout, "browser")
          /\ \E launched \in BOOLEAN :
                outcome' = IF launched THEN Success ELSE Failure(Err("browser"))
       \/ /\ ~openFlag
          /\ stdout' = stdout
          /\ outcome' = Success
    /\ hpc' = "done"
    /\ fileState' = "closed"
    /\ UNCHANGED <<context, req, requests, body, tty, chErr, wvars, tvars, pipe, prClosed>>

Handler ==
    \/ ResolveRepo \/ ResolveCommit \/ CheckFile \/ ResolveRoot \/ BuildURL
    \/ RenderCurl \/ OpenFile \/ SpawnWorker \/ SendRequest \/ AfterDo
    \/ RecvError \/ RecvClosed \/ ReadResponse \/ OpenBrowser

Worker ==
    \/ WorkerCopy \/ WorkerPipeWrite \/ WorkerWriteError \/ WorkerGzipClose
    \/ WorkerGzipClosed \/ WorkerPipeClose \/ WorkerChanClose

Next ==
    \/ Handler \/ Worker
    \/ TransportRead \/ TransportEOF \/ ServerRespond
    \/ ServerRespondEarly \/ TransportAbort \/ TransportFail

Spec == Init /\ [][Next]_vars

(***************************************************************************)
(* The runs with one repository, commit and token and every -root value of *)
(* at most MaxRootLen characters.                                          *)
(***************************************************************************)
\* the resolution of the repository alone, from every origin remote
InitRemote == InitWith(RepoFlags, AllRemotes, {Hash}, {<<>>}, {Token}, {TRUE})
RemoteSpec == InitRemote /\ [][ResolveRepo]_vars

InitRoot == InitWith({HP}, Remotes, {Hash}, PathStrings(MaxRootLen), {Token}, {TRUE})

RootSpec == InitRoot /\ [][Next]_vars

(***************************************************************************)
(* Scheduling.  The handler and the worker are goroutines the scheduler    *)
(* keeps running; the transport keeps reading the request body while there *)
(* is something to read, and the server answers once the body has ended.   *)
(* An answer before the end of the body, the transport giving up the body  *)
(* and a transport-level failure may happen but are never bound to happen. *)
(***************************************************************************)
FairSpec ==
    /\ Init
    /\ [][Next]_vars
    /\ WF_vars(Handler)
    /\ WF_vars(Worker)
    /\ WF_vars(TransportRead)
    /\ WF_vars(TransportEOF)
    /\ WF_vars(ServerRespond)

\* the server has answered before the request body ended
AnsweredEarly == resp # 0 /\ tpc \in {"sending", "aborted"}

\* C1: with a transport that reads the request body until end-of-stream or
\* an error and a server that answers once the body has ended (never
\* earlier), once the HTTP exchange has been started the run eventually ends
\* in a Success or Failure outcome: the handler does not stay blocked in the
\* HTTP call or on the receive from the completion channel.
C1_RunEnds ==
    ([]~AnsweredEarly) =>
        ((hpc = "do") ~> (hpc = "done" /\ outcome.kind \in {"Success", "Failure"}))

(***************************************************************************)
(* Properties.                                                             *)
(***************************************************************************)
Printed(tag) == \E i \in 1..Len(stdout) : stdout[i] = tag

\* the run got past context resolution, to request building
ReachedRequest == Printed("Root")

\* C2: when the worker reports an error on the completion signal the outcome
\* is a Failure carrying exactly that error whatever the HTTP status is, and
\* no run in which the worker's copy failed gets as far as reading or
\* classifying the response.
C2_ReaderErrorWins ==
    /\ chErr # NoErr => chErr = copyErr /\ hpc = "done" /\ outcome = Failure(chErr)
    /\ copyErr # NoErr =>
          /\ hpc \notin {"readall", "open"}
          /\ hpc = "done" => outcome \in {Failure(copyErr), Failure(Err("transport"))}

C2_Witness ==
    /\ hpc = "done"
    /\ chErr = Err("read")
    /\ resp = 200
    /\ outcome = Failure(Err("read"))

\* C3: the completion signal yields "no error" only if the worker met no
\* error reading the source and none writing into the pipe, the writes of
\* the final gw.Close() included: a handler that received nil from ch is in
\* a run whose worker had no error.
C3_SignalFaithful ==
    hpc \in {"readall", "open"} => copyErr = NoErr /\ closeErr = NoErr

\* C4: the gzip writer is closed before the pipe's write side and the pipe's
\* write side before the completion channel, whether the copy succeeded or
\* failed; when the reader sees end-of-stream the trailer is the last thing
\* it has read.
C4_ShutdownOrder ==
    /\ pwClosed => gwClosed
    /\ ch = "closed" => pwClosed
    /\ tpc \in {"awaiting", "done"} =>
          /\ pwClosed
          /\ received # <<>>
          /\ received[Len(received)] = Trl

C4_Witness ==
    /\ ch = "closed"
    /\ copyErr = Err("read")
    /\ tpc = "done"

\* C5: the handler issues at most one request, exactly one POST once the
\* file was opened and the request sent, and a transport-level error ends
\* the run with that error and without a second request.
C5_OneRequest ==
    /\ requests <= 1
    /\ (hpc \in {"do", "recv", "readall", "open"} \/ (hpc = "done" /\ fileState = "closed"))
          => requests = 1 /\ req.method = "POST" /\ req.url = url
    /\ requests = 0 => req = NoRequest /\ tpc = "idle"
    /\ (terr /\ hpc = "done") => outcome = Failure(Err("transport"))
    /\ (terr /\ hpc # "done") => hpc = "do"

C5_Witness ==
    /\ hpc = "done"
    /\ terr
    /\ requests = 1
    /\ outcome = Failure(Err("transport"))

\* C6 as stated: with getCurl set and the context resolved, the run prints
\* the command and returns success, without file, worker or request.
C6_DryRunAlwaysSucceeds ==
    (getCurl /\ ReachedRequest /\ hpc = "done") =>
        /\ outcome = Success
        /\ Printed("curl")
        /\ requests = 0 /\ fileState = "unopened" /\ wpc = "idle"

\* C6 as amended: with getCurl set no state has the dump file opened, the
\* worker started or a request in flight; once the context is resolved the
\* run ends either with the command printed for the target URL and success,
\* or, when cfg.Endpoint does not parse, with that error and nothing printed.
C6_DryRun ==
    getCurl =>
        /\ requests = 0 /\ req = NoRequest /\ tpc = "idle"
        /\ fileState = "unopened" /\ wpc = "idle"
        /\ (ReachedRequest /\ hpc = "done") =>
              \/ /\ outcome = Success
                 /\ Printed("curl")
                 /\ url # NoURL
                 /\ curl.url = url
              \/ /\ outcome = Failure(Err("url.Parse"))
                 /\ ~Printed("curl")
                 /\ url = NoURL
        /\ Printed("curl") => hpc = "done" /\ outcome = Success

C6_Witness ==
    /\ getCurl
    /\ hpc = "done"
    /\ outcome = Success
    /\ Printed("curl")
    /\ curl.url = url

\* C7: a missing dump file, or a project root (given or derived) that begins
\* with ".." once cleaned, ends the run with a diagnostic before the URL is
\* built, the command rendered, the worker started or a request issued.
C7_ContextFailuresAbort ==
    (Printed("File does not exist") \/ HasPrefix(Clean(rootFlag), <<Dot, Dot>>)) =>
        /\ url = NoURL /\ curl = NoCurl /\ req = NoRequest /\ requests = 0
        /\ wpc = "idle" /\ tpc = "idle" /\ fileState = "unopened"
        /\ hpc \in {"repo", "commit", "file", "root", "done"}
        /\ hpc = "done" => outcome.kind = "Exit"
        /\ Printed("File does not exist") => outcome = Exit("file")

C7_Witness ==
    /\ ~rootSet
    /\ hpc = "done"
    /\ outcome = Exit("root")
    /\ rootFlag = <<Dot, Dot>>
    /\ Printed("File")

\* in a run that reached request building the root does not begin with "..",
\* and is neither "." nor "/"
RootInv ==
    ReachedRequest =>
        /\ ~HasPrefix(rootFlag, <<Dot, Dot>>)
        /\ rootFlag \notin {<<Dot>>, <<Sep>>}

\* the step into request building leaves as root the cleaned -root value, or
\* the empty string where that value cleans to "." or "/"; later steps leave
\* the root alone
RootStep ==
    /\ ReachedRequest => rootFlag' = rootFlag
    /\ (rootSet /\ ~ReachedRequest /\ ReachedRequest') =>
          rootFlag' = IF Clean(rootFlag) \in {<<Dot>>, <<Sep>>} THEN <<>>
                      ELSE Clean(rootFlag)

\* C8: in a run that reached request building the root does not begin with
\* "..", is neither "." nor "/", is the cleaned -root value or the empty
\* string where that value cleans to "." or "/" (the empty -root value
\* included), and does not change again.
C8_RootNormalized == []RootInv /\ [][RootStep]_vars

C8_Witness ==
    /\ rootSet
    /\ ReachedRequest
    /\ rootFlag = <<>>
    /\ hpc = "done"
    /\ requests = 1

\* C9: in a run that reached request building the root is a relative path:
\* it does not start with a path separator.
C9_RootRelative == ReachedRequest => ~HasPrefix(rootFlag, <<Sep>>)

\* the pairs of the query string with the given key
PairsOf(key) == {i \in 1..Len(url.query) : url.query[i].key = key}

\* the query string holds the key if and only if the source value is
\* non-empty, at most once, with that value
QueryHolds(key, source) ==
    /\ PairsOf(key) # {} <=> source # <<>>
    /\ Cardinality(PairsOf(key)) <= 1
    /\ \A i \in PairsOf(key) : url.query[i].value = QueryEscape(source)

\* C10: the query string of the target URL holds each of repository, commit,
\* github_token, root and indexerName if and only if its source value is
\* non-empty, at most once and with exactly that value.
C10_QueryIffNonEmpty ==
    url # NoURL =>
        /\ QueryHolds("repository", repoFlag)
        /\ QueryHolds("commit", commitFlag)
        /\ QueryHolds("github_token", githubTokenFlag)
        /\ QueryHolds("root", rootFlag)
        /\ QueryHolds("indexerName", indexerNameFlag)

(***************************************************************************)
(* The response.                                                           *)
(***************************************************************************)
\* the response body was read: the compressor reported no error before
BodyRead == body # NoBody
Is2xx == resp >= 200 /\ resp < 300

\* C11: after a 2xx response whose body was read, the outcome is Success only
\* if the body is valid JSON with an id; a body that is not valid JSON and a
\* valid JSON body without an id both give the parse Failure, and the success
\* message with the status-page URL is not printed.
C11_SuccessNeedsId ==
    BodyRead /\ Is2xx =>
        /\ outcome = Success => body.json = "id" /\ PayloadID(body) # ""
        /\ body.json # "id" => outcome = Failure(Err("json")) /\ ~Printed("uploaded")

\* C12: after a response outside [200,300) whose body was read the run has
\* ended in a Failure and has not printed the success message; a 401 whose
\* body holds "must provide github_token" in any letter case gives the
\* -github-token error without the terminal hint, every other status gives
\* the error made of the status and the body as read, with the hint printed
\* exactly for a 401 on a terminal.
C12_FailureClassified ==
    BodyRead /\ ~Is2xx =>
        /\ hpc = "done"
        /\ outcome.kind = "Failure"
        /\ ~Printed("uploaded")
        /\ IF resp = 401 /\ body.phrase \in {"lower", "mixed"}
           THEN /\ outcome.err = Err("you must provide -github-token")
                /\ ~Printed("hint")
           ELSE /\ outcome.err = [name |-> "status", status |-> resp, body |-> body]
                /\ Printed("hint") <=> resp = 401 /\ tty

C12_Witness ==
    /\ BodyRead
    /\ resp = 401
    /\ body.phrase = "mixed"
    /\ outcome = Failure(Err("you must provide -github-token"))

\* the tag was printed before the other one
PrintedBefore(first, second) ==
    \E i, j \in 1..Len(stdout) : i < j /\ stdout[i] = first /\ stdout[j] = second

\* C13: the browser is launched only with -open, only after a 2xx response
\* without a compressor error and only after the success message was printed;
\* a failed launch makes the run a Failure although the message was printed;
\* a run that printed the message ends in Success without a launch when
\* -open is not given, and with a launch when it is.
C13_BrowserAfterSuccess ==
    /\ Printed("browser") =>
          /\ openFlag
          /\ BodyRead /\ Is2xx /\ chErr = NoErr
          /\ PrintedBefore("uploaded", "browser")
    /\ outcome = Failure(Err("browser")) => Printed("browser") /\ Printed("uploaded")
    /\ hpc = "done" /\ Printed("uploaded") =>
          IF openFlag
          THEN Printed("browser") /\ outcome \in {Success, Failure(Err("browser"))}
          ELSE ~Printed("browser") /\ outcome = Success

C13_Witness ==
    /\ hpc = "done"
    /\ openFlag
    /\ stdout = <<"Repository", "Commit", "File", "Root", "uploaded", "browser">>
    /\ outcome = Failure(Err("browser"))

(***************************************************************************)
(* The compressed stream.                                                  *)
(***************************************************************************)
\* the complete compressed form of a file
Compressed(content) ==
    <<Hdr>> \o [i \in 1..Len(content) |-> Data(content[i])] \o <<Trl>>

\* what a decompressor makes of a stream: an error unless it is a header,
\* data and a trailer
Gunzip(stream) ==
    IF /\ Len(stream) >= 2
       /\ stream[1] = Hdr
       /\ stream[Len(stream)] = Trl
       /\ \A i \in 2..(Len(stream) - 1) : stream[i].kind = "data"
    THEN [err |-> FALSE, val |-> [i \in 1..(Len(stream) - 2) |-> stream[i + 1].n]]
    ELSE [err |-> TRUE, val |-> <<>>]

\* the transport has read the request body up to io.EOF
SawEOF == tpc \in {"awaiting", "done"}
\* the completion channel was closed and the handler was sent no error
SignalNil == ch = "closed" /\ chErr = NoErr

\* C14: when the completion channel reports no error, what the transport has
\* read from the pipe up to end-of-stream is the complete compressed form of
\* the dump file, and decompressing it gives the file's content.
C14_StreamIntegrity ==
    SignalNil /\ SawEOF =>
        /\ received = Compressed(dump)
        /\ Gunzip(received) = [err |-> FALSE, val |-> dump]

C14_Witness ==
    /\ SignalNil
    /\ SawEOF
    /\ Len(dump) = MaxChunks
    /\ received = Compressed(dump)

(***************************************************************************)
(* The repository name derived from the origin remote.                     *)
(***************************************************************************)
\* the step that derives the repository from the origin remote, git having
\* printed it
DerivesRepo == hpc = "repo" /\ repoFlag = <<>> /\ outcome' # Exit("git remote")

\* a host without its user and port parts
BareHost(H) ==
    LET h == SubSeq(H, Index(H, "@") + 1, Len(H))
        c == Index(h, ":")
    IN  IF c = 0 THEN h ELSE SubSeq(h, 1, c - 1)

RepoStep ==
    DerivesRepo =>
        \A P \in RepoPaths :
            /\ \A H \in {<<"h">>, <<"h", ":", "2">>} :
                  originURL = SSHRemote(H, P) =>
                      /\ hpc' = "commit"
                      /\ repoFlag' = H \o <<Sep>> \o P
            /\ \A H \in RemoteHosts :
                  originURL = URLRemote(H, P) =>
                      /\ hpc' = "commit"
                      /\ repoFlag' \in {H \o <<Sep>> \o P, BareHost(H) \o <<Sep>> \o P}

\* C15: an origin remote git@H:P.git gives the repository H/P, and a remote
\* scheme://H/P.git gives H/P (with or without the user and port of H), for
\* every path P, the paths with a colon included, and every host H.
C15_RemoteNormalized == [][RepoStep]_vars

\* user@host:path: a user, a host and a path, all non-empty
IsUserHostPath(u) ==
    LET a == Index(u, "@")
        c == IndexFrom(u, ":", a + 1)
    IN  a > 1 /\ c > a + 1 /\ c < Len(u)

\* scheme://host/path: a scheme and a host, both non-empty
IsSchemeHostPath(u) ==
    \E k \in 2..(Len(u) - 2) :
        /\ SubSeq(u, k, k + 2) = <<":", Sep, Sep>>
        /\ \A i \in 1..(k - 1) : u[i] \in Letters
        /\ IndexFrom(u, Sep, k + 3) > k + 3

RejectStep ==
    DerivesRepo /\ ~IsUserHostPath(originURL) /\ ~IsSchemeHostPath(originURL) =>
        /\ hpc' = "done"
        /\ outcome' = Exit("parseRemoteURL")
        /\ stdout' = <<"unrecognized remote URL">>

\* C16: an origin remote that is neither user@host:path nor
\* scheme://host/path ends the run at the repository stage with the
\* diagnostic of parseRemoteURL's error.
C16_UnrecognizedRejected == [][RejectStep]_vars

(***************************************************************************)
(* The request of the two modes.                                           *)
(***************************************************************************)
\* the values a request or a command line gives the header
HeaderValues(r, name) == {h[2] : h \in {x \in r.headers : x[1] = name}}

\* the request the resolved context and the configuration call for
IsUploadRequest(r) ==
    /\ r.method = "POST"
    /\ url # NoURL
    /\ r.url = url
    /\ HeaderValues(r, "Content-Type") = {<<"application/x-ndjson+lsif">>}
    /\ HeaderValues(r, "Authorization") =
          (IF accessToken = <<>> THEN {} ELSE {<<"token ">> \o accessToken})
    /\ \A h \in r.headers : h[1] \in {"Content-Type", "Authorization"}

\* C17: the command line a dry run prints and the request a real run sends
\* are the same request: POST, the target URL with its query string, the
\* Content-Type application/x-ndjson+lsif, and the Authorization header
\* "token <accessToken>" exactly when the access token is non-empty.
C17_SameRequest ==
    /\ Printed("curl") => IsUploadRequest(curl)
    /\ requests > 0 => IsUploadRequest(req)
    /\ hpc = "done" /\ getCurl /\ outcome = Success => Printed("curl")
    /\ ~(Printed("curl") /\ requests > 0)

C17_Witness ==
    /\ Printed("curl")
    /\ accessToken = Token
    /\ curl.headers = { <<"Content-Type", <<"application/x-ndjson+lsif">>>>,
                        <<"Authorization", <<"token ", "t">>>> }
    /\ curl.url.query # <<>>

(***************************************************************************)
(* The report of the context.                                              *)
(***************************************************************************)
Fields == <<"Repository", "Commit", "File", "Root">>
IsField(tag) == \E i \in 1..Len(Fields) : Fields[i] = tag
\* the fields reported so far, in the order of their report
Reported == SelectSeq(stdout, IsField)

\* the fields reported when the handler is at the stage or has left at it
StageFields ==
    IF outcome.kind = "Exit"
    THEN CASE outcome.err.name \in {"git remote", "parseRemoteURL"} -> 0
           [] outcome.err.name = "git rev-parse" -> 1
           [] outcome.err.name = "file" -> 2
           [] outcome.err.name \in {"git toplevel", "rel", "root"} -> 3
    ELSE CASE hpc = "repo" -> 0
           [] hpc = "commit" -> 1
           [] hpc = "file" -> 2
           [] hpc = "root" -> 3
           [] OTHER -> 4

\* C18: the fields are reported in the order Repository, Commit, File, Root;
\* at each stage, and in a run that ended at it, exactly the fields of the
\* earlier stages are reported; all four are reported once the URL is built,
\* the cURL command printed or a request sent.
C18_FieldsInOrder ==
    /\ Reported = SubSeq(Fields, 1, StageFields)
    /\ url # NoURL \/ Printed("curl") \/ requests > 0 => Reported = Fields

C18_Witness ==
    /\ outcome = Exit("file")
    /\ stdout = <<"Repository", "Commit", "File does not exist">>

(***************************************************************************)
(* Backpressure.                                                           *)
(***************************************************************************)
\* what the worker has compressed and the transport has not read: at most
\* one write offered on the pipe, the rest held by the compressor
PipeBounded ==
    /\ Len(pipe) <= 1
    /\ pipe # <<>> => wq # <<>> /\ pipe = <<Head(wq)>>
    /\ Len(gwBuf) + Len(wq) <= GzipBuf + 1

\* while a write stays offered the worker does nothing else
WriterBlocks ==
    pipe # <<>> /\ pipe' = pipe =>
        /\ wpc' = wpc
        /\ filePos' = filePos
        /\ wq' = wq
        /\ gwBuf' = gwBuf
        /\ pwClosed' = pwClosed

\* the transport reads what is offered, and sees the end only of a closed pipe
ReaderBlocks ==
    /\ received' # received =>
          pipe # <<>> /\ received' = received \o pipe /\ pipe' = <<>>
    /\ ~SawEOF /\ SawEOF' => pwClosed /\ pipe = <<>> /\ wq = <<>>

\* C19: the compressed data the worker holds and the transport has not read
\* is bounded by a constant of the compressor, whatever the length of the
\* dump file; the worker does nothing while its pipe write is unread, and
\* the transport reads only what was written and sees the end of the stream
\* only after the pipe was closed.
C19_Backpressure == []PipeBounded /\ [][WriterBlocks /\ ReaderBlocks]_vars

C19_Witness ==
    /\ Len(dump) = MaxChunks
    /\ filePos = MaxChunks
    /\ Len(gwBuf) + Len(wq) = GzipBuf + 1
    /\ pipe # <<>>
    /\ Len(received) > 0

(***************************************************************************)
(* The worker at the handler's return.                                     *)
(***************************************************************************)
\* the handler has returned from a run that started the worker
ReturnedAfterSpawn == hpc = "done" /\ wpc # "idle"

\* C20: when the handler has returned from a run that started the worker,
\* the worker has ended: the gzip writer, the pipe and the completion channel
\* are closed, and the worker neither waits to send on the channel nor reads
\* the dump file.
C20_WorkerEndsFirst ==
    ReturnedAfterSpawn =>
        /\ wpc = "done"
        /\ gwClosed /\ pwClosed /\ ch = "closed"

====
